---- MODULE Spec2Model ----
(***************************************************************************)
(* The two notebooks of the repository as one state machine.               *)
(*                                                                         *)
(*   "Building AlexNet on Tensorflow"          (nb = "alexnet")            *)
(*   "Recurrent Neural Network on Tensorflow"  (nb = "rnn")                *)
(*                                                                         *)
(* A notebook is a list of code cells executed top to bottom; every cell   *)
(* (and every iteration of a Python loop inside a cell) is one action.     *)
(* The TensorFlow calls of a cell do not compute numbers: they append      *)
(* operations to the default graph.  The model therefore keeps the graph   *)
(* itself: `graph` is the sequence of the operations the notebook's calls  *)
(* created, each with the ids of the tensors it was given, and `env` is    *)
(* the Python namespace that binds the notebook's variable names to them.  *)
(***************************************************************************)
EXTENDS Integers, Sequences, FiniteSets, TLC

VARIABLES
    nb,           \* the notebook being executed
    pc,           \* the next cell (or loop position) to execute
    idx,          \* the Python loop variable of the loop being executed (i, j, step)
    gen,          \* generation of the default graph (tf.reset_default_graph starts a new one)
    graph,        \* every operation created so far, in creation order
    env,          \* Python names bound to tensors: name -> id in graph (0: not a tensor)
    trainable,    \* tf.trainable_variables(): the variables created, in creation order
    grads_vars,   \* the Python list grads_vars of the AlexNet train scope
    applied,      \* the list handed to optimizer.apply_gradients
    feed,         \* the feed_dict of the last session run
    fetched,      \* the values the last session run returned
    random_seq,   \* numpy array of the generated sequences
    train_seq,    \* numpy view: the training sequences
    test_seq,     \* numpy view: the test sequences
    hiddens_list, \* the Python list hiddens while it is a list
    states_list,  \* the Python list states while it is a list
    sess,         \* the session: which graph it runs, its variables' update count
    printed       \* the last line the notebook printed

vars == <<nb, pc, idx, gen, graph, env, trainable, grads_vars, applied, feed,
          fetched, random_seq, train_seq, test_seq, hiddens_list, states_list, sess,
          printed>>

(***************************************************************************)
(* Bounds of the model (not program constants).                            *)
(***************************************************************************)
\* largest batch fed to a session run of the AlexNet graph
MaxBatch == 2
\* width of the class dimension of the score tensor evaluated in a session
\* run (the layer has SOFTMAX_UNITS units; the evaluated tensor is cut to
\* its first NumClasses classes so that every score matrix can be enumerated)
NumClasses == 2
\* the score levels an evaluated class score takes (two levels order any two
\* classes; the layer's relu keeps scores non-negative)
ScoreLevels == {0, 1}

(***************************************************************************)
(* Program constants.                                                      *)
(***************************************************************************)
IMAGE_SIZE == 224
IMAGE_CHANNELS == 3
FC_UNITS == 4096
SOFTMAX_UNITS == 1000
FLAT_WIDTH == 13 * 13 * 256
ARGMAX_AXIS == 0
\* weight decay 0.0005 and learning rate 0.01, in units of 1e-4 and 1e-2
WEIGHT_DECAY_E4 == 5
LEARNING_RATE_E2 == 1
\* the RNN notebook
NUM_SEQ == 1000
SEQ_LENGTH == 10
TRAIN_SIZE == 800
HIDDEN_DIM == 4
TRAIN_STEPS == 100

UNKNOWN == -1     \* the "?" (None) dimension of a static shape

(***************************************************************************)
(* Python names of the two notebooks that are bound to tensors.            *)
(***************************************************************************)
AlexNames ==
    {"image_batch", "label_batch", "conv1", "lrn1", "maxpool1", "conv2", "lrn2",
     "maxpool2", "conv3", "conv4", "conv5", "dense1", "dense2", "softmax",
     "loss", "train_op", "prediction", "accuracy"}

RnnNames ==
    {"seq_input", "W_hx", "W_hh", "b_h", "W_yh", "b_y", "hidden_0", "hidden",
     "hiddens", "outputs", "predict", "train_step",
     "W_gx", "W_gh", "W_ix", "W_ih", "W_fx", "W_fh", "W_ox", "W_oh",
     "b_g", "b_i", "b_f", "b_o", "state_0", "state", "states",
     "g", "i", "f", "o"}

Names == AlexNames \cup RnnNames

(***************************************************************************)
(* Graph operations.                                                       *)
(***************************************************************************)
\* One operation of the graph: the call that made it, the tensor name it was
\* given, the variable_scope and the Python variable it was assigned to, the
\* ids of its input tensors, the static shape of its output, its activation
\* and its integer argument (filters, units, axis, or the index of a slice).
Node(g, scope, var, op, name, in, shape, act, arg) ==
    [gen |-> g, scope |-> scope, var |-> var, op |-> op, name |-> name,
     in |-> in, shape |-> shape, act |-> act, arg |-> arg]

\* A trainable variable: scope/layer/kind:0 with its shape.
Variable(g, scope, layer, kind, shape, init) ==
    [gen |-> g, scope |-> scope, layer |-> layer, kind |-> kind,
     shape |-> shape, init |-> init]

CeilDiv(a, b) == (a + b - 1) \div b

\* (mutant) 'SAME' padding rounded down instead of up
WindowOutFloor(in, kernel, stride, padding) ==
    IF padding = "SAME" THEN in \div stride
                        ELSE (in - kernel) \div stride + 1

\* Output size of a convolution or pooling window along one spatial dimension.
WindowOut(in, kernel, stride, padding) ==
    IF padding = "SAME" THEN CeilDiv(in, stride)
                        ELSE (in - kernel) \div stride + 1

\* tf.layers.conv2d(inputs, filters, kernel_size=[k,k], strides=(s,s), padding,
\*                  activation=tf.nn.relu, ...): the operation and its two variables
Conv2dShape(inShape, filters, k, s, padding) ==
    <<inShape[1], WindowOut(inShape[2], k, s, padding),
      WindowOut(inShape[3], k, s, padding), filters>>

Conv2d(g, scope, var, inId, inShape, filters, k, s, padding) ==
    Node(g, scope, var, "conv2d", "conv2d", <<inId>>,
         Conv2dShape(inShape, filters, k, s, padding), "relu", filters)

Conv2dVars(g, scope, inShape, filters, k, biasInit) ==
    << Variable(g, scope, "conv2d", "kernel", <<k, k, inShape[4], filters>>, "normal_0_0.01"),
       Variable(g, scope, "conv2d", "bias", <<filters>>, biasInit) >>

\* tf.nn.lrn keeps the shape of its input
Lrn(g, scope, var, inId, inShape) ==
    Node(g, scope, var, "lrn", var, <<inId>>, inShape, "", 5)

\* tf.layers.max_pooling2d(inputs, pool_size=[2,2], strides=(1,1)); padding
\* defaults to 'valid'
MaxPooling2d(g, scope, var, inId, inShape) ==
    Node(g, scope, var, "max_pooling2d", "max_pooling2d", <<inId>>,
         <<inShape[1], WindowOut(inShape[2], 2, 1, "VALID"),
           WindowOut(inShape[3], 2, 1, "VALID"), inShape[4]>>, "", 2)

\* tf.identity(x, name=...)
Identity(g, scope, var, inId, inShape, name) ==
    Node(g, scope, var, "identity", name, <<inId>>, inShape, "", 0)

\* tf.layers.dense(inputs, units, activation, ...)
Dense(g, scope, var, inId, inShape, units, act) ==
    Node(g, scope, var, "dense", "dense", <<inId>>, <<inShape[1], units>>, act, units)

DenseVars(g, scope, inShape, units) ==
    << Variable(g, scope, "dense", "kernel", <<inShape[2], units>>, "normal_0_0.01"),
       Variable(g, scope, "dense", "bias", <<units>>, "zeros") >>

\* tf.layers.dropout(inputs, rate=0.5, training=True)
Dropout(g, scope, var, inId, inShape) ==
    Node(g, scope, var, "dropout", "dropout", <<inId>>, inShape, "", 0)

\* tf.reshape(x, [-1, width])
Reshape2(g, scope, var, inId, width) ==
    Node(g, scope, var, "reshape", "Reshape", <<inId>>, <<UNKNOWN, width>>, "", width)

Bind(e, name, id) == [e EXCEPT ![name] = id]

NoFeed == [N |-> 0, scores |-> <<>>, labels |-> <<>>, data |-> ""]
NoFetch == [what |-> "", prediction |-> <<>>, ok |-> TRUE, num |-> 0, den |-> 0]
NoArray == [off |-> 0, shape |-> <<>>, cols |-> <<>>]
NoSess == [gen |-> 0, initialized |-> FALSE, updates |-> 0]
NoLine == [what |-> "", step |-> 0, updates |-> 0, data |-> ""]

Init ==
    /\ nb \in {"alexnet", "rnn"}
    /\ pc = "import"
    /\ idx = 0
    /\ gen = 0
    /\ graph = <<>>
    /\ env = [n \in Names |-> 0]
    /\ trainable = <<>>
    /\ grads_vars = <<>>
    /\ applied = <<>>
    /\ feed = NoFeed
    /\ fetched = NoFetch
    /\ random_seq = NoArray
    /\ train_seq = NoArray
    /\ test_seq = NoArray
    /\ hiddens_list = <<>>
    /\ states_list = <<>>
    /\ sess = NoSess
    /\ printed = NoLine

(***************************************************************************)
(* Building AlexNet on Tensorflow                                          *)
(***************************************************************************)
unchData == UNCHANGED <<random_seq, train_seq, test_seq, hiddens_list, states_list, sess, printed>>
unchRun == UNCHANGED <<feed, fetched>>
unchTrain == UNCHANGED <<grads_vars, applied>>

\* import tensorflow as tf; tf.reset_default_graph(); tf.set_random_seed(1)
AlexImport ==
    /\ nb = "alexnet" /\ pc = "import"
    /\ gen' = gen + 1
    /\ pc' = "input_layer"
    /\ UNCHANGED <<nb, idx, graph, env, trainable>>
    /\ unchData /\ unchRun /\ unchTrain

\* with tf.variable_scope('input_layer'): the two placeholders
AlexInputLayer ==
    /\ nb = "alexnet" /\ pc = "input_layer"
    /\ LET n1 == Node(gen, "input_layer", "image_batch", "placeholder", "image_batch", <<>>,
                      <<UNKNOWN, IMAGE_SIZE, IMAGE_SIZE, IMAGE_CHANNELS>>, "", 0)
           n2 == Node(gen, "input_layer", "label_batch", "placeholder", "label_batch", <<>>,
                      <<UNKNOWN>>, "", 0)
           k == Len(graph)
       IN /\ graph' = graph \o <<n1, n2>>
          /\ env' = Bind(Bind(env, "image_batch", k + 1), "label_batch", k + 2)
    /\ pc' = "conv_layer_1"
    /\ UNCHANGED <<nb, idx, gen, trainable>>
    /\ unchData /\ unchRun /\ unchTrain

\* A convolution cell: conv2d, tf.identity to rename it, and, when withLrnPool,
\* tf.nn.lrn, max_pooling2d and the tf.identity that renames the pooling.
ConvCell(scope, inVar, conv, lrn, pool, filters, k, s, padding, biasInit, withLrnPool, next) ==
    /\ nb = "alexnet" /\ pc = scope
    /\ LET inId == env[inVar]
           inShape == graph[inId].shape
           b == Len(graph)
           c1 == Conv2d(gen, scope, conv, inId, inShape, filters, k, s, padding)
           c2 == Identity(gen, scope, conv, b + 1, c1.shape, conv)
           l1 == Lrn(gen, scope, lrn, b + 2, c2.shape)
           p1 == MaxPooling2d(gen, scope, pool, b + 3, l1.shape)
           p2 == Identity(gen, scope, pool, b + 4, p1.shape, pool)
       IN /\ graph' = IF withLrnPool THEN graph \o <<c1, c2, l1, p1, p2>>
                                     ELSE graph \o <<c1, c2>>
          /\ env' = IF withLrnPool
                    THEN Bind(Bind(Bind(env, conv, b + 2), lrn, b + 3), pool, b + 5)
                    ELSE Bind(env, conv, b + 2)
          /\ trainable' = trainable \o Conv2dVars(gen, scope, inShape, filters, k, biasInit)
    /\ pc' = next
    /\ UNCHANGED <<nb, idx, gen>>
    /\ unchData /\ unchRun /\ unchTrain

AlexConvLayer1 ==
    ConvCell("conv_layer_1", "image_batch", "conv1", "lrn1", "maxpool1",
             96, 11, 4, "SAME", "zeros", TRUE, "conv_layer_2")

AlexConvLayer2 ==
    ConvCell("conv_layer_2", "maxpool1", "conv2", "lrn2", "maxpool2",
             256, 5, 2, "SAME", "ones", TRUE, "conv_layer_3")

AlexConvLayer3 ==
    ConvCell("conv_layer_3", "maxpool2", "conv3", "conv3", "conv3",
             384, 3, 2, "VALID", "zeros", FALSE, "conv_layer_4")

\* (mutant) conv_layer_4 reads maxpool2, skipping conv3
AlexConvLayer4FromMaxpool2 ==
    ConvCell("conv_layer_4", "maxpool2", "conv4", "conv4", "conv4",
             384, 3, 1, "SAME", "ones", FALSE, "conv_layer_5")

AlexConvLayer4 ==
    ConvCell("conv_layer_4", "conv3", "conv4", "conv4", "conv4",
             384, 3, 1, "SAME", "ones", FALSE, "conv_layer_5")

AlexConvLayer5 ==
    ConvCell("conv_layer_5", "conv4", "conv5", "conv5", "conv5",
             256, 3, 1, "SAME", "ones", FALSE, "fc_layer_1")

\* with tf.variable_scope('fc_layer_1'): reshape, dense, dropout, identity
AlexFcLayer1 ==
    /\ nb = "alexnet" /\ pc = "fc_layer_1"
    /\ LET b == Len(graph)
           r == Reshape2(gen, "fc_layer_1", "conv5", env["conv5"], FLAT_WIDTH)
           d == Dense(gen, "fc_layer_1", "dense1", b + 1, r.shape, FC_UNITS, "relu")
           o == Dropout(gen, "fc_layer_1", "dense1", b + 2, d.shape)
           i == Identity(gen, "fc_layer_1", "dense1", b + 3, o.shape, "dense1")
       IN /\ graph' = graph \o <<r, d, o, i>>
          /\ env' = Bind(Bind(env, "conv5", b + 1), "dense1", b + 4)
          /\ trainable' = trainable \o DenseVars(gen, "fc_layer_1", r.shape, FC_UNITS)
    /\ pc' = "fc_layer_2"
    /\ UNCHANGED <<nb, idx, gen>>
    /\ unchData /\ unchRun /\ unchTrain

\* with tf.variable_scope('fc_layer_2'): dense, dropout, identity
AlexFcLayer2 ==
    /\ nb = "alexnet" /\ pc = "fc_layer_2"
    /\ LET b == Len(graph)
           inId == env["dense1"]
           d == Dense(gen, "fc_layer_2", "dense2", inId, graph[inId].shape, FC_UNITS, "relu")
           o == Dropout(gen, "fc_layer_2", "dense2", b + 1, d.shape)
           i == Identity(gen, "fc_layer_2", "dense2", b + 2, o.shape, "dense2")
       IN /\ graph' = graph \o <<d, o, i>>
          /\ env' = Bind(env, "dense2", b + 3)
          /\ trainable' = trainable \o DenseVars(gen, "fc_layer_2", graph[inId].shape, FC_UNITS)
    /\ pc' = "softmax_layer"
    /\ UNCHANGED <<nb, idx, gen>>
    /\ unchData /\ unchRun /\ unchTrain

\* the activation the softmax_layer cell passes to tf.layers.dense
SoftmaxLayerActivation == "relu"

\* with tf.variable_scope('softmax_layer'): dense, identity
AlexSoftmaxLayer ==
    /\ nb = "alexnet" /\ pc = "softmax_layer"
    /\ LET b == Len(graph)
           inId == env["dense2"]
           d == Dense(gen, "softmax_layer", "softmax", inId, graph[inId].shape,
                      SOFTMAX_UNITS, SoftmaxLayerActivation)
           i == Identity(gen, "softmax_layer", "softmax", b + 1, d.shape, "softmax")
       IN /\ graph' = graph \o <<d, i>>
          /\ env' = Bind(env, "softmax", b + 2)
          /\ trainable' = trainable \o DenseVars(gen, "softmax_layer", graph[inId].shape,
                                                 SOFTMAX_UNITS)
    /\ pc' = "trainable_variables"
    /\ UNCHANGED <<nb, idx, gen>>
    /\ unchData /\ unchRun /\ unchTrain

\* tf.trainable_variables(): the cell only displays the list
AlexTrainableVariables ==
    /\ nb = "alexnet" /\ pc = "trainable_variables"
    /\ pc' = "loss"
    /\ UNCHANGED <<nb, idx, gen, graph, env, trainable>>
    /\ unchData /\ unchRun /\ unchTrain

\* (mutant) the loss reads dense2 instead of the softmax layer
AlexLossFromDense2 ==
    /\ nb = "alexnet" /\ pc = "loss"
    /\ LET b == Len(graph)
           n == Node(gen, "loss", "loss", "sparse_softmax_cross_entropy", "value",
                     <<env["label_batch"], env["dense2"]>>, <<>>, "", 0)
       IN /\ graph' = Append(graph, n)
          /\ env' = Bind(env, "loss", b + 1)
    /\ pc' = "train"
    /\ UNCHANGED <<nb, idx, gen, trainable>>
    /\ unchData /\ unchRun /\ unchTrain

\* with tf.variable_scope('loss'): sparse_softmax_cross_entropy(labels, logits)
AlexLoss ==
    /\ nb = "alexnet" /\ pc = "loss"
    /\ LET b == Len(graph)
           n == Node(gen, "loss", "loss", "sparse_softmax_cross_entropy", "value",
                     <<env["label_batch"], env["softmax"]>>, <<>>, "", 0)
       IN /\ graph' = Append(graph, n)
          /\ env' = Bind(env, "loss", b + 1)
    /\ pc' = "train"
    /\ UNCHANGED <<nb, idx, gen, trainable>>
    /\ unchData /\ unchRun /\ unchTrain

(***************************************************************************)
(* 10. Training.  A gradient is kept as the expression the code builds:    *)
(* d loss / d trainable[wrt], plus coef_e6 * 1e-6 * trainable[decay_var]   *)
(* (decay_var = 0: nothing was added).                                     *)
(***************************************************************************)
CurrentVars == { k \in 1..Len(trainable) : trainable[k].gen = gen }

\* the k-th smallest element of a finite set of integers
RECURSIVE Sorted(_)
Sorted(S) ==
    IF S = {} THEN <<>>
    ELSE LET m == CHOOSE x \in S : \A y \in S : x <= y
         IN <<m>> \o Sorted(S \ {m})

\* optimizer.compute_gradients(loss): one (gradient, variable) pair for every
\* trainable variable of the graph, in creation order
ComputeGradients ==
    LET vs == Sorted(CurrentVars)
    IN [k \in 1..Len(vs) |->
          [grad |-> [wrt |-> vs[k], coef_e6 |-> 0, decay_var |-> 0], var |-> vs[k]]]

\* (mutant) weight decay added to the kernels only
WithWeightDecayKernelsOnly(pair) ==
    IF trainable[pair.var].kind = "bias" THEN pair
    ELSE [grad |-> [wrt |-> pair.grad.wrt,
                    coef_e6 |-> pair.grad.coef_e6 + WEIGHT_DECAY_E4 * LEARNING_RATE_E2,
                    decay_var |-> pair.var],
          var |-> pair.var]

\* (grad + 0.0005*0.01*var, var)
WithWeightDecay(pair) ==
    [grad |-> [wrt |-> pair.grad.wrt,
               coef_e6 |-> pair.grad.coef_e6 + WEIGHT_DECAY_E4 * LEARNING_RATE_E2,
               decay_var |-> pair.var],
     var |-> pair.var]

\* optimizer = tf.train.MomentumOptimizer(...); grads_vars = optimizer.compute_gradients(loss)
AlexComputeGradients ==
    /\ nb = "alexnet" /\ pc = "train"
    /\ grads_vars' = ComputeGradients
    /\ pc' = "train_decay"
    /\ UNCHANGED <<nb, idx, gen, graph, env, trainable, applied>>
    /\ unchData /\ unchRun

\* grads_vars = [(grad + 0.0005*0.01*var, var) for grad, var in grads_vars]
AlexWeightDecay ==
    /\ nb = "alexnet" /\ pc = "train_decay"
    /\ grads_vars' = [k \in 1..Len(grads_vars) |-> WithWeightDecay(grads_vars[k])]
    /\ pc' = "train_apply"
    /\ UNCHANGED <<nb, idx, gen, graph, env, trainable, applied>>
    /\ unchData /\ unchRun

\* train_op = optimizer.apply_gradients(grads_vars)
AlexApplyGradients ==
    /\ nb = "alexnet" /\ pc = "train_apply"
    /\ applied' = grads_vars
    /\ LET n == Node(gen, "train", "train_op", "apply_gradients", "Momentum",
                     <<env["loss"]>>, <<>>, "", 0)
       IN /\ graph' = Append(graph, n)
          /\ env' = Bind(env, "train_op", Len(graph) + 1)
    /\ pc' = "predict"
    /\ UNCHANGED <<nb, idx, gen, trainable, grads_vars>>
    /\ unchData /\ unchRun

(***************************************************************************)
(* 11. Prediction                                                          *)
(***************************************************************************)
\* the static shape of a reduction over one axis: that axis is removed
RemoveAxis(shape, axis) ==
    [k \in 1..(Len(shape) - 1) |-> IF k <= axis THEN shape[k] ELSE shape[k + 1]]

\* the axis the predict scope passes to tf.argmax
PredictionAxis == ARGMAX_AXIS

\* the static shape of an element-wise operation on two 1-D tensors
BroadcastShape(a, b) ==
    IF a[1] = UNKNOWN \/ a[1] = 1 THEN b ELSE a

\* with tf.variable_scope('predict'): argmax, equal, to_float, reduce_mean
AlexPredict ==
    /\ nb = "alexnet" /\ pc = "predict"
    /\ LET b == Len(graph)
           sm == env["softmax"]
           a == Node(gen, "predict", "prediction", "argmax", "prediction", <<sm>>,
                     RemoveAxis(graph[sm].shape, PredictionAxis), "", PredictionAxis)
           e == Node(gen, "predict", "accuracy", "equal", "Equal",
                     <<b + 1, env["label_batch"]>>,
                     BroadcastShape(a.shape, graph[env["label_batch"]].shape), "", 0)
           f == Node(gen, "predict", "accuracy", "to_float", "ToFloat", <<b + 2>>,
                     e.shape, "", 0)
           m == Node(gen, "predict", "accuracy", "reduce_mean", "accuracy", <<b + 3>>,
                     <<>>, "", 0)
       IN /\ graph' = graph \o <<a, e, f, m>>
          /\ env' = Bind(Bind(env, "prediction", b + 1), "accuracy", b + 4)
    /\ pc' = "built"
    /\ UNCHANGED <<nb, idx, gen, trainable>>
    /\ unchData /\ unchRun /\ unchTrain

(***************************************************************************)
(* Evaluating prediction and accuracy for a fed batch.  The value of the   *)
(* softmax tensor for the batch depends on the images and on the weights;  *)
(* it is taken as any matrix of non-negative scores, one row per example.  *)
(***************************************************************************)
Max(S) == CHOOSE x \in S : \A y \in S : x >= y
Min(S) == CHOOSE x \in S : \A y \in S : x <= y

\* tf.argmax(m, axis): m has `rows` rows and `cols` columns; indices are
\* 0-based and the smallest index of a maximum is returned
ArgMax(m, rows, cols, axis) ==
    IF axis = 0
    THEN [c \in 1..cols |->
            Min({r \in 1..rows : \A r2 \in 1..rows : m[r][c] >= m[r2][c]}) - 1]
    ELSE [r \in 1..rows |->
            Min({c \in 1..cols : \A c2 \in 1..cols : m[r][c] >= m[r][c2]}) - 1]

\* tf.equal broadcasts its 1-D operands when their lengths are equal or one is 1
Broadcastable(a, b) == Len(a) = Len(b) \/ Len(a) = 1 \/ Len(b) = 1

At(a, k) == IF Len(a) = 1 THEN a[1] ELSE a[k]

\* tf.equal(a, b) of two 1-D tensors
Equal(a, b) ==
    [k \in 1..Max({Len(a), Len(b)}) |-> At(a, k) = At(b, k)]

\* sess.run([prediction, accuracy], {image_batch: ..., label_batch: labels})
RunPredict(N, scores, labels) ==
    LET axis == graph[env["prediction"]].arg
        p == ArgMax(scores, N, NumClasses, axis)
        eq == Equal(p, labels)
    IN [what |-> "predict",
        prediction |-> p,
        ok |-> Broadcastable(p, labels),
        num |-> IF Broadcastable(p, labels)
                THEN Cardinality({k \in 1..Len(eq) : eq[k]}) ELSE 0,
        den |-> IF Broadcastable(p, labels) THEN Len(eq) ELSE 0]

AlexRun ==
    /\ nb = "alexnet" /\ pc = "built"
    /\ \E N \in 1..MaxBatch :
         \E scores \in [1..N -> [1..NumClasses -> ScoreLevels]] :
           \E labels \in [1..N -> 0..(NumClasses - 1)] :
              /\ feed' = [N |-> N, scores |-> scores, labels |-> labels, data |-> "batch"]
              /\ fetched' = RunPredict(N, scores, labels)
    /\ pc' = "ran"
    /\ UNCHANGED <<nb, idx, gen, graph, env, trainable>>
    /\ unchData /\ unchTrain

AlexNext ==
    \/ AlexImport \/ AlexInputLayer
    \/ AlexConvLayer1 \/ AlexConvLayer2 \/ AlexConvLayer3 \/ AlexConvLayer4 \/ AlexConvLayer5
    \/ AlexFcLayer1 \/ AlexFcLayer2 \/ AlexSoftmaxLayer \/ AlexTrainableVariables
    \/ AlexLoss \/ AlexComputeGradients \/ AlexWeightDecay \/ AlexApplyGradients
    \/ AlexPredict \/ AlexRun

(***************************************************************************)
(* Recurrent Neural Network on Tensorflow: preparing the data.             *)
(*                                                                         *)
(* A numpy array is a view on a buffer: an offset, a shape, and the        *)
(* buffer.  The buffer holds NUM_SEQ rows; the code only ever writes whole *)
(* columns (random_seq[:, i] = ...), so the buffer is kept by column: the  *)
(* value at (row, c) is the rule x -> x*1.1 + 0.3 applied cols[c].k times  *)
(* to the number np.random.normal drew at (row, cols[c].col).  The draws   *)
(* themselves stay symbolic, so what is checked holds for every draw.      *)
(***************************************************************************)
\* v*1.1 + 0.3
Rule(v) == [v EXCEPT !.k = @ + 1]

\* np.random.normal(size=[rows, cols])
Normal(rows, cols) ==
    [off |-> 0, shape |-> <<rows, cols>>,
     cols |-> [c \in 1..cols |-> [col |-> c - 1, k |-> 0]]]

RECURSIVE Prod(_)
Prod(shape) == IF shape = <<>> THEN 1 ELSE shape[1] * Prod(Tail(shape))

RECURSIVE FlatIndex(_, _)
\* row-major position of index ix in an array of the given shape
FlatIndex(shape, ix) ==
    IF shape = <<>> THEN 0
    ELSE ix[1] * Prod(Tail(shape)) + FlatIndex(Tail(shape), Tail(ix))

\* the value at position flat of the buffer
BufferAt(cols, flat) ==
    [row |-> flat \div Len(cols), col |-> cols[(flat % Len(cols)) + 1].col,
     k |-> cols[(flat % Len(cols)) + 1].k]

\* arr[ix]: the value at a (0-based) index
Elem(arr, ix) == BufferAt(arr.cols, arr.off + FlatIndex(arr.shape, ix))

\* (mutant) the column is computed from the original draw of column i-1, not
\* from the value the previous iteration wrote there
DataLoopBodyFromDraws(arr, i) ==
    [arr EXCEPT !.cols[i + 1] = Rule([col |-> i - 1, k |-> 0])]

\* random_seq[:, i] = random_seq[:, i-1]*1.1 + 0.3
DataLoopBody(arr, i) ==
    [arr EXCEPT !.cols[i + 1] = Rule(arr.cols[i])]

\* arr.reshape(shape), one dimension of which may be -1
Reshape(arr, shape) ==
    LET known == Prod([k \in 1..Len(shape) |-> IF shape[k] = -1 THEN 1 ELSE shape[k]])
        inferred == Prod(arr.shape) \div known
    IN [arr EXCEPT !.shape = [k \in 1..Len(shape) |->
                                 IF shape[k] = -1 THEN inferred ELSE shape[k]]]

\* arr[:stop,:,:]
SliceTo(arr, stop) ==
    [arr EXCEPT !.shape[1] = Min({stop, arr.shape[1]})]

\* (mutant) the view starts at the first row instead of at row start
SliceFromFirstRow(arr, start) ==
    LET b == Min({start, arr.shape[1]})
    IN [off |-> arr.off,
        shape |-> [arr.shape EXCEPT ![1] = @ - b],
        cols |-> arr.cols]

\* arr[start:,:,:]
SliceFrom(arr, start) ==
    LET b == Min({start, arr.shape[1]})
    IN [off |-> arr.off + b * Prod(Tail(arr.shape)),
        shape |-> [arr.shape EXCEPT ![1] = @ - b],
        cols |-> arr.cols]

unchGraph == UNCHANGED <<gen, graph, env, trainable, hiddens_list, states_list>>
unchSess == UNCHANGED <<sess, printed>>
unchArrays == UNCHANGED <<random_seq, train_seq, test_seq>>

\* import numpy as np; import tensorflow as tf
RnnImport ==
    /\ nb = "rnn" /\ pc = "import"
    /\ pc' = "data"
    /\ UNCHANGED <<nb, idx>>
    /\ unchGraph /\ unchSess /\ unchArrays /\ unchRun /\ unchTrain

\* np.random.seed(1); SEQ_LENGTH = 10; random_seq = np.random.normal(...)
DataDraw ==
    /\ nb = "rnn" /\ pc = "data"
    /\ random_seq' = Normal(NUM_SEQ, SEQ_LENGTH)
    /\ idx' = 1
    /\ pc' = "data_loop"
    /\ UNCHANGED <<nb, train_seq, test_seq>>
    /\ unchGraph /\ unchSess /\ unchRun /\ unchTrain

\* for i in range(1, SEQ_LENGTH): one iteration
DataLoop ==
    /\ nb = "rnn" /\ pc = "data_loop"
    /\ idx < SEQ_LENGTH
    /\ random_seq' = DataLoopBody(random_seq, idx)
    /\ idx' = idx + 1
    /\ UNCHANGED <<nb, pc, train_seq, test_seq>>
    /\ unchGraph /\ unchSess /\ unchRun /\ unchTrain

\* random_seq = random_seq.reshape(-1, SEQ_LENGTH, 1)
\* train_seq = random_seq[:800,:,:]; test_seq = random_seq[800:,:,:]
DataSplit ==
    /\ nb = "rnn" /\ pc = "data_loop"
    /\ idx >= SEQ_LENGTH
    /\ LET r == Reshape(random_seq, <<-1, SEQ_LENGTH, 1>>)
       IN /\ random_seq' = r
          /\ train_seq' = SliceTo(r, TRAIN_SIZE)
          /\ test_seq' = SliceFrom(r, TRAIN_SIZE)
    /\ idx' = 0
    /\ pc' = "rnn_reset"
    /\ UNCHANGED <<nb>>
    /\ unchGraph /\ unchSess /\ unchRun /\ unchTrain

(***************************************************************************)
(* The cells the vanilla RNN and the LSTM sections share.                  *)
(***************************************************************************)
\* tf.reset_default_graph(); tf.set_random_seed(1); HIDDEN_DIM = 4; LEARNING_RATE = 0.1
ResetCell(here, next) ==
    /\ nb = "rnn" /\ pc = here
    /\ gen' = gen + 1
    /\ pc' = next
    /\ UNCHANGED <<nb, idx, graph, env, trainable, hiddens_list, states_list>>
    /\ unchSess /\ unchArrays /\ unchRun /\ unchTrain

\* with tf.variable_scope('input'): seq_input = tf.placeholder(...)
InputCell(here, next) ==
    /\ nb = "rnn" /\ pc = here
    /\ graph' = Append(graph, Node(gen, "input", "seq_input", "placeholder", "seq_input",
                                   <<>>, <<UNKNOWN, SEQ_LENGTH, 1>>, "", 0))
    /\ env' = Bind(env, "seq_input", Len(graph) + 1)
    /\ pc' = next
    /\ UNCHANGED <<nb, idx, gen, trainable, hiddens_list, states_list>>
    /\ unchSess /\ unchArrays /\ unchRun /\ unchTrain

\* with tf.variable_scope('weights'): one tf.get_variable per entry of ws
RECURSIVE BindAll(_, _, _)
BindAll(e, ws, first) ==
    IF ws = <<>> THEN e
    ELSE BindAll(Bind(e, ws[1].name, first), Tail(ws), first + 1)

WeightsCell(here, next, ws) ==
    /\ nb = "rnn" /\ pc = here
    /\ graph' = graph \o [k \in 1..Len(ws) |->
                    Node(gen, "weights", ws[k].name, "variable", ws[k].name, <<>>,
                         ws[k].shape, "", 0)]
    /\ env' = BindAll(env, ws, Len(graph) + 1)
    /\ trainable' = trainable \o [k \in 1..Len(ws) |->
                    Variable(gen, "weights", ws[k].name, "variable", ws[k].shape, "default")]
    /\ pc' = next
    /\ UNCHANGED <<nb, idx, gen, hiddens_list, states_list>>
    /\ unchSess /\ unchArrays /\ unchRun /\ unchTrain

W(name, shape) == [name |-> name, shape |-> shape]

\* tf.zeros(shape=[tf.shape(seq_input)[0], HIDDEN_DIM], name=...): the shape
\* operation that reads seq_input, and the zeros tensor
\* (the first gets id b0 + 1)
Zeros(g, var, b0, x) ==
    << Node(g, "rnn", var, "shape", "Shape", <<x>>, <<>>, "", 0),
       Node(g, "rnn", var, "zeros", var, <<b0 + 1>>, <<UNKNOWN, HIDDEN_DIM>>, "", 0) >>

\* seq_input[:,j,:]
Slice(g, scope, var, inId, j) ==
    Node(g, scope, var, "strided_slice", "strided_slice", <<inId>>, <<UNKNOWN, 1>>, "", j)

\* tf.matmul(seq_input[:,j,:], Wx) + tf.nn.xw_plus_b(hidden, Wh, b):
\* the four operations, the first of which gets id b0 + 1
PreActivation(g, var, b0, j, x, h, Wx, Wh, b) ==
    << Slice(g, "rnn", var, x, j),
       Node(g, "rnn", var, "matmul", "MatMul", <<b0 + 1, Wx>>, <<UNKNOWN, HIDDEN_DIM>>, "", j),
       Node(g, "rnn", var, "xw_plus_b", "xw_plus_b", <<h, Wh, b>>, <<UNKNOWN, HIDDEN_DIM>>, "", j),
       Node(g, "rnn", var, "add", "add", <<b0 + 2, b0 + 3>>, <<UNKNOWN, HIDDEN_DIM>>, "", j) >>

\* tf.sigmoid(x, name) / tf.tanh(x, name)
Activation(g, var, op, name, inId, j) ==
    Node(g, "rnn", var, op, name, <<inId>>, <<UNKNOWN, HIDDEN_DIM>>, "", j)

\* a * b, a + b of two tensors
Binary(g, var, op, a, b, j) ==
    Node(g, "rnn", var, op, op, <<a, b>>, <<UNKNOWN, HIDDEN_DIM>>, "", j)

\* tf.stack(list, axis=1, name)
Stack(g, var, ids) ==
    Node(g, "rnn", var, "stack", var, ids, <<UNKNOWN, Len(ids), HIDDEN_DIM>>, "", 1)

\* with tf.variable_scope('output'): reshape, xw_plus_b, reshape
OutputCell(here, next) ==
    /\ nb = "rnn" /\ pc = here
    /\ LET b == Len(graph)
           r1 == Node(gen, "output", "outputs", "reshape", "Reshape", <<env["hiddens"]>>,
                      <<UNKNOWN, HIDDEN_DIM>>, "", 0)
           y == Node(gen, "output", "outputs", "xw_plus_b", "xw_plus_b",
                     <<b + 1, env["W_yh"], env["b_y"]>>, <<UNKNOWN, 1>>, "", 0)
           r2 == Node(gen, "output", "outputs", "reshape", "outputs", <<b + 2>>,
                      <<UNKNOWN, SEQ_LENGTH - 1, 1>>, "", 0)
       IN /\ graph' = graph \o <<r1, y, r2>>
          /\ env' = Bind(env, "outputs", b + 3)
    /\ pc' = next
    /\ UNCHANGED <<nb, idx, gen, trainable, hiddens_list, states_list>>
    /\ unchSess /\ unchArrays /\ unchRun /\ unchTrain

\* with tf.variable_scope('learning'): predict, loss, train_step
LearningCell(here, next) ==
    /\ nb = "rnn" /\ pc = here
    /\ LET b == Len(graph)
           s1 == Slice(gen, "learning", "predict", env["outputs"], -1)
           p == Node(gen, "learning", "predict", "identity", "predict", <<b + 1>>,
                     <<UNKNOWN, 1>>, "", 0)
           s2 == Slice(gen, "learning", "loss", env["seq_input"], -1)
           l == Node(gen, "learning", "loss", "mean_squared_error", "value",
                     <<b + 3, b + 2>>, <<>>, "", 0)
           t == Node(gen, "learning", "train_step", "minimize", "Adam", <<b + 4>>,
                     <<>>, "", 0)
       IN /\ graph' = graph \o <<s1, p, s2, l, t>>
          /\ env' = Bind(Bind(Bind(env, "predict", b + 2), "loss", b + 4), "train_step", b + 5)
    /\ pc' = next
    /\ UNCHANGED <<nb, idx, gen, trainable, hiddens_list, states_list>>
    /\ unchSess /\ unchArrays /\ unchRun /\ unchTrain

\* the session cell with the variables keeping the values the session before
\* it left them with, the initializer giving them no new value
SessionCellKeepsValues(here, next) ==
    /\ nb = "rnn" /\ pc = here
    /\ sess' = [gen |-> gen, initialized |-> TRUE, updates |-> sess.updates]
    /\ idx' = 1
    /\ pc' = next
    /\ UNCHANGED <<nb, printed>>
    /\ unchGraph /\ unchArrays /\ unchRun /\ unchTrain

\* sess = tf.Session(); sess.run(tf.global_variables_initializer())
SessionCell(here, next) ==
    /\ nb = "rnn" /\ pc = here
    /\ sess' = [gen |-> gen, initialized |-> TRUE, updates |-> 0]
    /\ idx' = 1
    /\ pc' = next
    /\ UNCHANGED <<nb, printed>>
    /\ unchGraph /\ unchArrays /\ unchRun /\ unchTrain

FeedOf(arr, name) ==
    [N |-> arr.shape[1], scores |-> <<>>, labels |-> <<>>, data |-> name]

\* the first statement of the loop body with train_step applied twice in
\* the one pass
TrainStepTwice(here, next) ==
    /\ nb = "rnn" /\ pc = here
    /\ idx <= TRAIN_STEPS
    /\ feed' = FeedOf(train_seq, "train_seq")
    /\ fetched' = [NoFetch EXCEPT !.what = "train_step"]
    /\ sess' = [sess EXCEPT !.updates = @ + 2]
    /\ pc' = next
    /\ UNCHANGED <<nb, idx, printed>>
    /\ unchGraph /\ unchArrays /\ unchTrain

\* for step in range(1,101): _ = sess.run(train_step, {seq_input: train_seq})
TrainStep(here, next) ==
    /\ nb = "rnn" /\ pc = here
    /\ idx <= TRAIN_STEPS
    /\ feed' = FeedOf(train_seq, "train_seq")
    /\ fetched' = [NoFetch EXCEPT !.what = "train_step"]
    /\ sess' = [sess EXCEPT !.updates = @ + 1]
    /\ pc' = next
    /\ UNCHANGED <<nb, idx, printed>>
    /\ unchGraph /\ unchArrays /\ unchTrain

\* curr_loss = sess.run(loss, {seq_input: train_seq}); print 'step:', step, 'loss:', curr_loss
TrainLoss(here, next) ==
    /\ nb = "rnn" /\ pc = here
    /\ feed' = FeedOf(train_seq, "train_seq")
    /\ fetched' = [NoFetch EXCEPT !.what = "loss"]
    /\ printed' = [what |-> "step", step |-> idx, updates |-> sess.updates,
                   data |-> "train_seq"]
    /\ idx' = idx + 1
    /\ pc' = next
    /\ UNCHANGED <<nb, sess>>
    /\ unchGraph /\ unchArrays /\ unchTrain

\* the test cell with train_step fetched next to loss in the run on test_seq
TestCellAlsoTrains(here, next) ==
    /\ nb = "rnn" /\ pc = here
    /\ idx > TRAIN_STEPS
    /\ feed' = FeedOf(test_seq, "test_seq")
    /\ fetched' = [NoFetch EXCEPT !.what = "loss"]
    /\ printed' = [what |-> "test loss", step |-> 0, updates |-> sess.updates + 1,
                   data |-> "test_seq"]
    /\ sess' = [sess EXCEPT !.updates = @ + 1]
    /\ idx' = 0
    /\ pc' = next
    /\ UNCHANGED nb
    /\ unchGraph /\ unchArrays /\ unchTrain

\* prediction = sess.run(predict, {seq_input: test_seq})
\* test_loss = sess.run(loss, {seq_input: test_seq}); print 'test loss:', test_loss
TestCell(here, next) ==
    /\ nb = "rnn" /\ pc = here
    /\ idx > TRAIN_STEPS
    /\ feed' = FeedOf(test_seq, "test_seq")
    /\ fetched' = [NoFetch EXCEPT !.what = "loss"]
    /\ printed' = [what |-> "test loss", step |-> 0, updates |-> sess.updates,
                   data |-> "test_seq"]
    /\ idx' = 0
    /\ pc' = next
    /\ UNCHANGED <<nb, sess>>
    /\ unchGraph /\ unchArrays /\ unchTrain

(***************************************************************************)
(* Basic RNN                                                               *)
(***************************************************************************)
RnnReset == ResetCell("rnn_reset", "rnn_input")

RnnInput == InputCell("rnn_input", "rnn_weights")

RnnWeights ==
    WeightsCell("rnn_weights", "rnn_scope",
                << W("W_hx", <<1, HIDDEN_DIM>>), W("W_hh", <<HIDDEN_DIM, HIDDEN_DIM>>),
                   W("b_h", <<HIDDEN_DIM>>), W("W_yh", <<HIDDEN_DIM, 1>>), W("b_y", <<1>>) >>)

\* with tf.variable_scope('rnn'): hidden_0 = tf.zeros(...); hidden = hidden_0;
\* hiddens = list()
RnnScope ==
    /\ nb = "rnn" /\ pc = "rnn_scope"
    /\ LET b == Len(graph)
       IN /\ graph' = graph \o Zeros(gen, "hidden_0", b, env["seq_input"])
          /\ env' = Bind(Bind(Bind(env, "hidden_0", b + 2), "hidden", b + 2), "hiddens", 0)
    /\ hiddens_list' = <<>>
    /\ idx' = 0
    /\ pc' = "rnn_loop"
    /\ UNCHANGED <<nb, gen, trainable, states_list>>
    /\ unchSess /\ unchArrays /\ unchRun /\ unchTrain

\* the loop of the vanilla RNN with every step reading hidden_0 in place of
\* the hidden value the previous step produced
RnnLoopFromInitialHidden ==
    /\ nb = "rnn" /\ pc = "rnn_loop"
    /\ idx < SEQ_LENGTH - 1
    /\ LET b == Len(graph)
           pre == PreActivation(gen, "hidden", b, idx, env["seq_input"], env["hidden_0"],
                                env["W_hx"], env["W_hh"], env["b_h"])
           h == Activation(gen, "hidden", "sigmoid", "Sigmoid", b + 4, idx)
       IN /\ graph' = graph \o pre \o <<h>>
          /\ env' = Bind(env, "hidden", b + 5)
          /\ hiddens_list' = Append(hiddens_list, b + 5)
    /\ idx' = idx + 1
    /\ UNCHANGED <<nb, pc, gen, trainable, states_list>>
    /\ unchSess /\ unchArrays /\ unchRun /\ unchTrain

\* for j in range(SEQ_LENGTH-1): one iteration of the vanilla RNN loop
RnnLoop ==
    /\ nb = "rnn" /\ pc = "rnn_loop"
    /\ idx < SEQ_LENGTH - 1
    /\ LET b == Len(graph)
           pre == PreActivation(gen, "hidden", b, idx, env["seq_input"], env["hidden"],
                                env["W_hx"], env["W_hh"], env["b_h"])
           h == Activation(gen, "hidden", "sigmoid", "Sigmoid", b + 4, idx)
       IN /\ graph' = graph \o pre \o <<h>>
          /\ env' = Bind(env, "hidden", b + 5)
          /\ hiddens_list' = Append(hiddens_list, b + 5)
    /\ idx' = idx + 1
    /\ UNCHANGED <<nb, pc, gen, trainable, states_list>>
    /\ unchSess /\ unchArrays /\ unchRun /\ unchTrain

\* hiddens = tf.stack(hiddens, axis=1, name='hiddens')
RnnStack ==
    /\ nb = "rnn" /\ pc = "rnn_loop"
    /\ idx >= SEQ_LENGTH - 1
    /\ graph' = Append(graph, Stack(gen, "hiddens", hiddens_list))
    /\ env' = Bind(env, "hiddens", Len(graph) + 1)
    /\ hiddens_list' = <<>>
    /\ idx' = 0
    /\ pc' = "rnn_output"
    /\ UNCHANGED <<nb, gen, trainable, states_list>>
    /\ unchSess /\ unchArrays /\ unchRun /\ unchTrain

RnnOutput == OutputCell("rnn_output", "rnn_learning")

RnnLearning == LearningCell("rnn_learning", "rnn_session")

RnnSession == SessionCell("rnn_session", "rnn_train")

RnnTrainStep == TrainStep("rnn_train", "rnn_train_loss")

RnnTrainLoss == TrainLoss("rnn_train_loss", "rnn_train")

RnnTest == TestCell("rnn_train", "lstm_reset")

(***************************************************************************)
(* Long Short Term Memory                                                  *)
(***************************************************************************)
LstmReset == ResetCell("lstm_reset", "lstm_input")

LstmInput == InputCell("lstm_input", "lstm_weights")

LstmWeights ==
    WeightsCell("lstm_weights", "lstm_scope",
                << W("W_gx", <<1, HIDDEN_DIM>>), W("W_gh", <<HIDDEN_DIM, HIDDEN_DIM>>),
                   W("W_ix", <<1, HIDDEN_DIM>>), W("W_ih", <<HIDDEN_DIM, HIDDEN_DIM>>),
                   W("W_fx", <<1, HIDDEN_DIM>>), W("W_fh", <<HIDDEN_DIM, HIDDEN_DIM>>),
                   W("W_ox", <<1, HIDDEN_DIM>>), W("W_oh", <<HIDDEN_DIM, HIDDEN_DIM>>),
                   W("b_g", <<HIDDEN_DIM>>), W("b_i", <<HIDDEN_DIM>>),
                   W("b_f", <<HIDDEN_DIM>>), W("b_o", <<HIDDEN_DIM>>),
                   W("W_yh", <<HIDDEN_DIM, 1>>), W("b_y", <<1>>) >>)

\* with tf.variable_scope('rnn'): state_0, state, states = list(), hidden_0,
\* hidden, hiddens = list()
LstmScope ==
    /\ nb = "rnn" /\ pc = "lstm_scope"
    /\ LET b == Len(graph)
           x == env["seq_input"]
           e1 == Bind(Bind(Bind(env, "state_0", b + 2), "state", b + 2), "states", 0)
       IN /\ graph' = graph \o Zeros(gen, "state_0", b, x) \o Zeros(gen, "hidden_0", b + 2, x)
          /\ env' = Bind(Bind(Bind(e1, "hidden_0", b + 4), "hidden", b + 4), "hiddens", 0)
    /\ hiddens_list' = <<>>
    /\ states_list' = <<>>
    /\ idx' = 0
    /\ pc' = "lstm_loop"
    /\ UNCHANGED <<nb, gen, trainable>>
    /\ unchSess /\ unchArrays /\ unchRun /\ unchTrain

\* the iteration of the LSTM loop with the new hidden taken from the tanh of
\* the previous step's state in place of the state just computed
LstmLoopTanhOfPreviousState ==
    /\ nb = "rnn" /\ pc = "lstm_loop"
    /\ idx < SEQ_LENGTH - 1
    /\ LET b == Len(graph)
           x == env["seq_input"]
           h == env["hidden"]
           gPre == PreActivation(gen, "g", b, idx, x, h, env["W_gx"], env["W_gh"], env["b_g"])
           g == Activation(gen, "g", "tanh", "g", b + 4, idx)
           iPre == PreActivation(gen, "i", b + 5, idx, x, h, env["W_ix"], env["W_ih"], env["b_i"])
           i == Activation(gen, "i", "sigmoid", "i", b + 9, idx)
           fPre == PreActivation(gen, "f", b + 10, idx, x, h, env["W_fx"], env["W_fh"], env["b_f"])
           f == Activation(gen, "f", "sigmoid", "f", b + 5, idx)
           oPre == PreActivation(gen, "o", b + 15, idx, x, h, env["W_ox"], env["W_oh"], env["b_o"])
           o == Activation(gen, "o", "sigmoid", "o", b + 19, idx)
           gi == Binary(gen, "state", "mul", b + 5, b + 10, idx)
           fs == Binary(gen, "state", "mul", b + 15, env["state"], idx)
           st == Binary(gen, "state", "add", b + 21, b + 22, idx)
           th == Activation(gen, "hidden", "tanh", "Tanh", env["state"], idx)
           hd == Binary(gen, "hidden", "mul", b + 20, b + 24, idx)
       IN /\ graph' = graph \o gPre \o <<g>> \o iPre \o <<i>> \o fPre \o <<f>>
                            \o oPre \o <<o>> \o <<gi, fs, st, th, hd>>
          /\ env' = [env EXCEPT !["g"] = b + 5, !["i"] = b + 10, !["f"] = b + 15,
                                !["o"] = b + 20, !["state"] = b + 23, !["hidden"] = b + 25]
          /\ states_list' = Append(states_list, b + 23)
          /\ hiddens_list' = Append(hiddens_list, b + 25)
    /\ idx' = idx + 1
    /\ UNCHANGED <<nb, pc, gen, trainable>>
    /\ unchSess /\ unchArrays /\ unchRun /\ unchTrain

\* for j in range(SEQ_LENGTH-1): one iteration of the LSTM loop.  Every gate
\* variable is first bound to its pre-activation sum and then rebound to the
\* activation the code applies; f is rebound to tf.sigmoid(g, name='f'), the
\* sigmoid of the tensor g is bound to at that point.
LstmLoop ==
    /\ nb = "rnn" /\ pc = "lstm_loop"
    /\ idx < SEQ_LENGTH - 1
    /\ LET b == Len(graph)
           x == env["seq_input"]
           h == env["hidden"]
           gPre == PreActivation(gen, "g", b, idx, x, h, env["W_gx"], env["W_gh"], env["b_g"])
           g == Activation(gen, "g", "tanh", "g", b + 4, idx)
           iPre == PreActivation(gen, "i", b + 5, idx, x, h, env["W_ix"], env["W_ih"], env["b_i"])
           i == Activation(gen, "i", "sigmoid", "i", b + 9, idx)
           fPre == PreActivation(gen, "f", b + 10, idx, x, h, env["W_fx"], env["W_fh"], env["b_f"])
           f == Activation(gen, "f", "sigmoid", "f", b + 5, idx)
           oPre == PreActivation(gen, "o", b + 15, idx, x, h, env["W_ox"], env["W_oh"], env["b_o"])
           o == Activation(gen, "o", "sigmoid", "o", b + 19, idx)
           gi == Binary(gen, "state", "mul", b + 5, b + 10, idx)
           fs == Binary(gen, "state", "mul", b + 15, env["state"], idx)
           st == Binary(gen, "state", "add", b + 21, b + 22, idx)
           th == Activation(gen, "hidden", "tanh", "Tanh", b + 23, idx)
           hd == Binary(gen, "hidden", "mul", b + 20, b + 24, idx)
       IN /\ graph' = graph \o gPre \o <<g>> \o iPre \o <<i>> \o fPre \o <<f>>
                            \o oPre \o <<o>> \o <<gi, fs, st, th, hd>>
          /\ env' = [env EXCEPT !["g"] = b + 5, !["i"] = b + 10, !["f"] = b + 15,
                                !["o"] = b + 20, !["state"] = b + 23, !["hidden"] = b + 25]
          /\ states_list' = Append(states_list, b + 23)
          /\ hiddens_list' = Append(hiddens_list, b + 25)
    /\ idx' = idx + 1
    /\ UNCHANGED <<nb, pc, gen, trainable>>
    /\ unchSess /\ unchArrays /\ unchRun /\ unchTrain

\* states = tf.stack(states, axis=1, name='states')
\* hiddens = tf.stack(hiddens, axis=1, name='hiddens')
LstmStack ==
    /\ nb = "rnn" /\ pc = "lstm_loop"
    /\ idx >= SEQ_LENGTH - 1
    /\ graph' = graph \o <<Stack(gen, "states", states_list), Stack(gen, "hiddens", hiddens_list)>>
    /\ env' = Bind(Bind(env, "states", Len(graph) + 1), "hiddens", Len(graph) + 2)
    /\ hiddens_list' = <<>>
    /\ states_list' = <<>>
    /\ idx' = 0
    /\ pc' = "lstm_output"
    /\ UNCHANGED <<nb, gen, trainable>>
    /\ unchSess /\ unchArrays /\ unchRun /\ unchTrain

LstmOutput == OutputCell("lstm_output", "lstm_learning")

LstmLearning == LearningCell("lstm_learning", "lstm_session")

LstmSession == SessionCell("lstm_session", "lstm_train")

LstmTrainStep == TrainStep("lstm_train", "lstm_train_loss")

LstmTrainLoss == TrainLoss("lstm_train_loss", "lstm_train")

LstmTest == TestCell("lstm_train", "done")

RnnNext ==
    \/ RnnImport \/ DataDraw \/ DataLoop \/ DataSplit
    \/ RnnReset \/ RnnInput \/ RnnWeights \/ RnnScope \/ RnnLoop \/ RnnStack
    \/ RnnOutput \/ RnnLearning \/ RnnSession \/ RnnTrainStep \/ RnnTrainLoss \/ RnnTest
    \/ LstmReset \/ LstmInput \/ LstmWeights \/ LstmScope \/ LstmLoop \/ LstmStack
    \/ LstmOutput \/ LstmLearning \/ LstmSession \/ LstmTrainStep \/ LstmTrainLoss \/ LstmTest

Next == AlexNext \/ RnnNext

Spec == Init /\ [][Next]_vars

(***************************************************************************)
(* Properties.                                                             *)
(***************************************************************************)
Ids == 1..Len(graph)

Range(f) == { f[k] : k \in DOMAIN f }

\* the hidden tensors appended so far in the loop being built
HiddensSoFar ==
    IF env["hiddens"] # 0 THEN graph[env["hiddens"]].in ELSE hiddens_list

\* the hidden tensor step j reads: hidden_0 at the first step, the hidden the
\* previous step appended after it
PreviousHidden(j) == IF j = 0 THEN env["hidden_0"] ELSE HiddensSoFar[j]

\* C1: at every time step j of the LSTM loop the forget gate f is the sigmoid
\* of W_fx*x_j + W_fh*h_(j-1) + b_f, its own pre-activation, and of no other
\* gate's value.
C1_ForgetGateEquation ==
    \A n \in Ids :
        (graph[n].name = "f" /\ graph[n].gen = gen) =>
            LET f == graph[n]
                pre == graph[f.in[1]]
            IN /\ f.op = "sigmoid"
               /\ pre.op = "add"
               /\ graph[pre.in[1]].op = "matmul"
               /\ graph[graph[pre.in[1]].in[1]].op = "strided_slice"
               /\ graph[graph[pre.in[1]].in[1]].in = <<env["seq_input"]>>
               /\ graph[graph[pre.in[1]].in[1]].arg = f.arg
               /\ graph[pre.in[1]].in[2] = env["W_fx"]
               /\ graph[pre.in[2]].op = "xw_plus_b"
               /\ graph[pre.in[2]].in = <<PreviousHidden(f.arg), env["W_fh"], env["b_f"]>>

\* C2: for every example b of a fed batch, prediction[b] is the index of the
\* largest of that example's class scores.
C2_PredictionIsClassOfExample ==
    fetched.what = "predict" =>
        \A b \in 1..feed.N :
            /\ b <= Len(fetched.prediction)
            /\ fetched.prediction[b] \in 0..(NumClasses - 1)
            /\ \A c \in 1..NumClasses :
                   feed.scores[b][fetched.prediction[b] + 1] >= feed.scores[b][c]

\* C3: for every batch size N the prediction has one entry per example, so it
\* is compared element by element with the N labels, and accuracy is the number
\* of examples whose prediction equals their label, over N.
C3_AccuracyOverBatch ==
    fetched.what = "predict" =>
        /\ Len(fetched.prediction) = feed.N
        /\ fetched.ok
        /\ fetched.den = feed.N
        /\ fetched.num = Cardinality({b \in 1..feed.N : fetched.prediction[b] = feed.labels[b]})

\* C4: the last layer applies softmax, not relu, to its dense output, and the
\* loss is computed from that layer's output.
C4_SoftmaxLayerAppliesSoftmax ==
    (nb = "alexnet" /\ env["softmax"] # 0) =>
        LET d == graph[graph[env["softmax"]].in[1]]
        IN /\ d.op = "dense"
           /\ d.act = "softmax"
           /\ env["loss"] # 0 => env["softmax"] \in Range(graph[env["loss"]].in)

\* the shapes the notebook printed when its cells ran
RecordedShapes ==
    << [name |-> "conv1",    shape |-> <<UNKNOWN, 56, 56, 96>>],
       [name |-> "lrn1",     shape |-> <<UNKNOWN, 56, 56, 96>>],
       [name |-> "maxpool1", shape |-> <<UNKNOWN, 55, 55, 96>>],
       [name |-> "conv2",    shape |-> <<UNKNOWN, 28, 28, 256>>],
       [name |-> "lrn2",     shape |-> <<UNKNOWN, 28, 28, 256>>],
       [name |-> "maxpool2", shape |-> <<UNKNOWN, 27, 27, 256>>],
       [name |-> "conv3",    shape |-> <<UNKNOWN, 13, 13, 384>>],
       [name |-> "conv4",    shape |-> <<UNKNOWN, 13, 13, 384>>],
       [name |-> "conv5",    shape |-> <<UNKNOWN, 13, 13, 256>>] >>

\* C5: the output-size arithmetic applied to the configured layers in order,
\* from a 224x224x3 image, yields exactly the recorded shapes; LRN keeps the
\* shape; and the flattened width 43264 fed to fc_layer_1 is the number of
\* values per example of conv5, so every layer's output shape is the shape its
\* successor consumes.
C5_RecordedShapes ==
    nb = "alexnet" =>
        /\ \A n \in Ids : \A k \in 1..Len(RecordedShapes) :
               graph[n].name = RecordedShapes[k].name =>
                   graph[n].shape = RecordedShapes[k].shape
        /\ \A n \in Ids :
               graph[n].op = "lrn" => graph[n].shape = graph[graph[n].in[1]].shape
        /\ \A n \in Ids :
               graph[n].op = "reshape" =>
                   /\ graph[n].arg = 43264
                   /\ graph[n].arg = Prod(Tail(graph[graph[n].in[1]].shape))
        /\ \A n \in Ids :
               graph[n].op = "dense" =>
                   \E v \in 1..Len(trainable) :
                       /\ trainable[v].scope = graph[n].scope
                       /\ trainable[v].kind = "kernel"
                       /\ trainable[v].shape =
                              <<graph[graph[n].in[1]].shape[2], graph[n].arg>>

C5_Witness ==
    /\ nb = "alexnet"
    /\ env["dense1"] # 0
    /\ \E n \in Ids : graph[n].name = "conv5" /\ graph[n].shape = <<UNKNOWN, 13, 13, 256>>
    /\ \E n \in Ids : graph[n].op = "reshape" /\ graph[n].shape = <<UNKNOWN, 43264>>

\* the stages of the AlexNet pipeline, in the order of the claim
StageOrder ==
    << "input", "conv1", "lrn1", "maxpool1", "conv2", "lrn2", "maxpool2", "conv3",
       "conv4", "conv5", "dense1", "dense2", "softmax", "loss", "train", "predict" >>

AlexLayerScopes ==
    {"conv_layer_1", "conv_layer_2", "conv_layer_3", "conv_layer_4", "conv_layer_5",
     "fc_layer_1", "fc_layer_2", "softmax_layer"}

\* the stage an operation belongs to: inside a layer scope the tensor (Python
\* variable) it builds, elsewhere its scope
Stage(n) ==
    IF graph[n].scope \in AlexLayerScopes THEN graph[n].var
    ELSE IF graph[n].scope = "input_layer" THEN "input"
    ELSE graph[n].scope

Pos(stage) == CHOOSE k \in 1..Len(StageOrder) : StageOrder[k] = stage

\* n is the last operation of its stage built so far
LastOfStage(n) ==
    \A m \in Ids : (m > n /\ graph[m].gen = graph[n].gen) => Stage(m) # Stage(n)

\* C6: the AlexNet stages are built in the order input, conv1, lrn1, maxpool1,
\* ..., softmax, loss, gradient update, prediction/accuracy, none skipped; and
\* every layer stage reads exactly the output of the stage immediately before
\* it and nothing earlier.
C6_LinearPipeline ==
    nb = "alexnet" =>
        /\ \A n \in Ids : Stage(n) \in Range(StageOrder)
        /\ Len(graph) > 0 => Stage(1) = "input"
        /\ \A n \in Ids : n > 1 =>
               /\ Pos(Stage(n)) >= Pos(Stage(n - 1))
               /\ Pos(Stage(n)) <= Pos(Stage(n - 1)) + 1
        /\ \A n \in Ids :
               (Pos(Stage(n)) >= 2 /\ Pos(Stage(n)) <= 13) =>
                   /\ Len(graph[n].in) = 1
                   /\ LET i == graph[n].in[1]
                      IN \/ i = n - 1 /\ Stage(i) = Stage(n)
                         \/ /\ Pos(Stage(i)) = Pos(Stage(n)) - 1
                            /\ Stage(n - 1) # Stage(n)
                            /\ LastOfStage(i) \/ graph[i].name = "image_batch"

C6_Witness ==
    /\ nb = "alexnet"
    /\ pc = "built"
    /\ { Stage(n) : n \in Ids } = Range(StageOrder)
    /\ graph[graph[env["softmax"]].in[1]].in = <<env["dense2"]>>

\* the stages that read tensor t, other than the stage that produced it
ConsumerStages(t) ==
    { Stage(m) : m \in { m \in Ids : t \in Range(graph[m].in) } } \ { Stage(t) }

\* the tensors a stage hands on: the placeholders, and the last tensor of every
\* layer stage (AlexNet's layers; the rnn and output scopes of the RNN and LSTM)
LayerStages == (Range(StageOrder) \ {"input", "loss", "train", "predict"}) \cup {"rnn", "output"}

Produced ==
    { n \in Ids : \/ graph[n].op = "placeholder"
                  \/ Stage(n) \in LayerStages /\ LastOfStage(n) }

\* the graph of generation g is complete: its last operation has been created
Complete(g) ==
    \E n \in Ids : graph[n].gen = g /\ graph[n].op \in {"reduce_mean", "minimize"}

\* C7 (as stated): neither graph branches: every tensor a stage produces (a
\* layer output, the softmax-layer output, an input placeholder) is consumed by
\* exactly one downstream stage.
C7_NoFanOut ==
    \A t \in Produced :
        /\ Cardinality(ConsumerStages(t)) <= 1
        /\ Complete(graph[t].gen) => Cardinality(ConsumerStages(t)) = 1

\* the tensors read by two stages, with the stages that read them
FanOut(t) ==
    IF graph[t].name \in {"softmax", "label_batch"} THEN {"loss", "predict"}
    ELSE IF graph[t].name = "seq_input" THEN {"rnn", "learning"}
    ELSE {}

\* C7 (amended): the layer chain is straight-line: every layer output before
\* the last one (image_batch, conv1 .. dense2; hiddens and outputs of the RNN
\* and the LSTM) is consumed by exactly one downstream stage.  The graphs fan
\* out at their ends: AlexNet's softmax-layer output and label_batch are each
\* consumed by the two stages loss and predict, and seq_input by the two scopes
\* rnn and learning.
C7_StraightLineChainWithFanOutAtEnds ==
    \A t \in Produced :
        IF FanOut(t) = {}
        THEN /\ Cardinality(ConsumerStages(t)) <= 1
             /\ Complete(graph[t].gen) => Cardinality(ConsumerStages(t)) = 1
        ELSE /\ ConsumerStages(t) \subseteq FanOut(t)
             /\ Complete(graph[t].gen) => ConsumerStages(t) = FanOut(t)

C7_Witness ==
    /\ nb = "alexnet"
    /\ pc = "built"
    /\ env["softmax"] \in Produced
    /\ ConsumerStages(env["softmax"]) = {"loss", "predict"}
    /\ ConsumerStages(env["dense2"]) = {"softmax"}

\* C8: every (gradient, variable) pair handed to apply_gradients is the
\* gradient compute_gradients returned for that variable plus 0.0005 * 0.01 *
\* that variable (5e-6), paired with the same variable; for all 16 trainable
\* variables, kernels and biases alike, none dropped, duplicated or reordered.
C8_WeightDecayOnEveryGradient ==
    (nb = "alexnet" /\ env["train_op"] # 0) =>
        /\ Len(trainable) = 16
        /\ Cardinality({v \in 1..Len(trainable) : trainable[v].kind = "kernel"}) = 8
        /\ Cardinality({v \in 1..Len(trainable) : trainable[v].kind = "bias"}) = 8
        /\ Len(applied) = 16
        /\ \A k \in 1..16 :
               /\ applied[k].var = k
               /\ applied[k].grad.wrt = k
               /\ applied[k].grad.decay_var = k
               /\ applied[k].grad.coef_e6 = 5

C8_Witness ==
    /\ nb = "alexnet"
    /\ pc = "predict"
    /\ Len(applied) = 16
    /\ trainable[applied[16].var].kind = "bias"
    /\ applied[16].grad.decay_var = 16

\* C9: after the data-generation loop every one of the 1000 sequences
\* satisfies x[t] = 1.1 * x[t-1] + 0.3 for every t in 1..SEQ_LENGTH-1, each
\* x[t] being computed from the already updated x[t-1]; only x[0] keeps its
\* original random draw.
\* (Checked in the state the data cell leaves; no later step writes the array.)
DataPhases == {"import", "data", "data_loop"}

C9_AfterTheLoop ==
    (nb = "rnn" /\ pc = "rnn_reset") =>
        \A s \in 0..(NUM_SEQ - 1) :
            /\ Elem(random_seq, <<s, 0, 0>>) = [row |-> s, col |-> 0, k |-> 0]
            /\ \A t \in 1..(SEQ_LENGTH - 1) :
                   /\ Elem(random_seq, <<s, t, 0>>) = Rule(Elem(random_seq, <<s, t - 1, 0>>))
                   /\ Elem(random_seq, <<s, t, 0>>) # [row |-> s, col |-> t, k |-> 0]

C9_EverySequenceFollowsTheRule ==
    /\ [](C9_AfterTheLoop)
    /\ [][pc \notin DataPhases => random_seq' = random_seq]_vars

C9_Witness ==
    /\ nb = "rnn"
    /\ pc = "rnn_reset"
    /\ Elem(random_seq, <<NUM_SEQ - 1, SEQ_LENGTH - 1, 0>>) =
           [row |-> NUM_SEQ - 1, col |-> 0, k |-> SEQ_LENGTH - 1]

\* the sequences (rows of the generated data) an array holds
RowsOf(arr) == { Elem(arr, <<s, 0, 0>>).row : s \in 0..(arr.shape[1] - 1) }

\* C10: train_seq is exactly sequences 0..799 and test_seq exactly sequences
\* 800..999: disjoint, together every sequence, each of shape [n, SEQ_LENGTH, 1].
\* (Checked in the state the data cell leaves; no later step writes the arrays.)
C10_AfterTheSplit ==
    (nb = "rnn" /\ pc = "rnn_reset") =>
        /\ train_seq.shape = <<800, SEQ_LENGTH, 1>>
        /\ test_seq.shape = <<200, SEQ_LENGTH, 1>>
        /\ \A s \in 0..799 : \A t \in 0..(SEQ_LENGTH - 1) :
               Elem(train_seq, <<s, t, 0>>) = Elem(random_seq, <<s, t, 0>>)
        /\ \A s \in 0..199 : \A t \in 0..(SEQ_LENGTH - 1) :
               Elem(test_seq, <<s, t, 0>>) = Elem(random_seq, <<800 + s, t, 0>>)
        /\ RowsOf(train_seq) = 0..799
        /\ RowsOf(test_seq) = 800..999
        /\ RowsOf(train_seq) \cap RowsOf(test_seq) = {}
        /\ RowsOf(train_seq) \cup RowsOf(test_seq) = 0..(NUM_SEQ - 1)

C10_TrainTestSplit ==
    /\ [](C10_AfterTheSplit)
    /\ [][pc \notin DataPhases =>
            /\ random_seq' = random_seq
            /\ train_seq' = train_seq
            /\ test_seq' = test_seq]_vars

C10_Witness ==
    /\ nb = "rnn"
    /\ pc = "rnn_reset"
    /\ Cardinality(RowsOf(train_seq)) = 800
    /\ Elem(test_seq, <<0, 0, 0>>).row = 800
    /\ Elem(test_seq, <<199, SEQ_LENGTH - 1, 0>>).row = NUM_SEQ - 1

\* the graph of the vanilla RNN section: the one that holds the variable W_hx
VanillaGen ==
    IF \E n \in Ids : graph[n].op = "variable" /\ graph[n].var = "W_hx"
    THEN graph[CHOOSE n \in Ids : graph[n].op = "variable" /\ graph[n].var = "W_hx"].gen
    ELSE 0

\* the operation of graph g that variable var of kind op names
NodeOf(g, var, op) ==
    CHOOSE n \in Ids : graph[n].gen = g /\ graph[n].var = var /\ graph[n].op = op

\* the hidden values the vanilla RNN loop has produced in graph g, the one of
\* step j among the set hs of them, and the stacked tensor
HiddensOf(g) ==
    { n \in Ids : /\ graph[n].gen = g
                  /\ graph[n].var = "hidden"
                  /\ graph[n].op = "sigmoid" }

HiddenIn(hs, j) == CHOOSE n \in hs : graph[n].arg = j

StacksOf(g) ==
    { n \in Ids : /\ graph[n].gen = g
                  /\ graph[n].var = "hiddens"
                  /\ graph[n].op = "stack" }

VanillaHiddens == HiddensOf(VanillaGen)

HiddenAt(j) == HiddenIn(VanillaHiddens, j)

VanillaStacks == StacksOf(VanillaGen)

\* hidden_0 is zeros, every step j is sigmoid(x_j W_hx + h_(j-1) W_hh + b_h) with
\* h_(j-1) the previous step's hidden, and the stacked tensor holds, along
\* axis 1 and in time order, the hidden values of steps 0..len-1
VanillaRecurrence(len) ==
    LET g == VanillaGen
        hs == HiddensOf(g)
        x == NodeOf(g, "seq_input", "placeholder")
        h0 == NodeOf(g, "hidden_0", "zeros")
        Whx == NodeOf(g, "W_hx", "variable")
        Whh == NodeOf(g, "W_hh", "variable")
        bh == NodeOf(g, "b_h", "variable")
    IN g # 0 =>
        /\ \A n \in hs :
               LET h == graph[n]
                   pre == graph[h.in[1]]
                   mm == graph[pre.in[1]]
                   sl == graph[mm.in[1]]
                   xw == graph[pre.in[2]]
                   prev == IF h.arg = 0 THEN h0 ELSE HiddenIn(hs, h.arg - 1)
               IN /\ Cardinality({ m \in hs : graph[m].arg = h.arg }) = 1
                  /\ pre.op = "add"
                  /\ mm.op = "matmul"
                  /\ sl.op = "strided_slice"
                  /\ sl.in = <<x>>
                  /\ sl.arg = h.arg
                  /\ mm.in[2] = Whx
                  /\ xw.op = "xw_plus_b"
                  /\ xw.in = <<prev, Whh, bh>>
                  /\ (h.arg > 0 => prev < n)
        /\ \A n \in StacksOf(g) :
               /\ graph[n].arg = 1
               /\ Len(graph[n].in) = len
               /\ graph[n].shape = <<UNKNOWN, len, HIDDEN_DIM>>
               /\ \A j \in 1..len : graph[n].in[j] = HiddenIn(hs, j - 1)

\* C11 as stated: hidden_0 is all zeros, each step computes
\* h(t) = sigmoid(W_hx x(t) + W_hh h(t-1) + b_h) from the previous step's hidden
\* value, and the stacked hiddens tensor holds the hidden value of every one
\* of the SEQ_LENGTH time steps of the input sequence, in time order on axis 1.
C11_HiddenOfEveryTimeStep == VanillaRecurrence(SEQ_LENGTH)

\* C11: hidden_0 is all zeros, each step j computes
\* h(j) = sigmoid(W_hx x(j) + W_hh h(j-1) + b_h) from the previous step's hidden
\* value, and the stacked hiddens tensor holds, in time order on axis 1, the
\* hidden values of the first SEQ_LENGTH-1 time steps only: the last element of
\* the sequence is never an input of the recurrence.
C11_HiddenOfAllButTheLastStep ==
    /\ VanillaRecurrence(SEQ_LENGTH - 1)
    /\ \A n \in VanillaHiddens : graph[n].arg \in 0..(SEQ_LENGTH - 2)

C11_Witness ==
    /\ nb = "rnn"
    /\ pc = "rnn_output"
    /\ VanillaStacks # {}
    /\ Cardinality(VanillaHiddens) = SEQ_LENGTH - 1
    /\ graph[graph[graph[HiddenAt(SEQ_LENGTH - 2)].in[1]].in[2]].in[1] = HiddenAt(SEQ_LENGTH - 3)
    /\ graph[graph[graph[HiddenAt(0)].in[1]].in[2]].in[1] = env["hidden_0"]

\* the graph of the LSTM section: the one that holds the variable W_gx
LstmGen ==
    IF \E n \in Ids : graph[n].op = "variable" /\ graph[n].var = "W_gx"
    THEN graph[CHOOSE n \in Ids : graph[n].op = "variable" /\ graph[n].var = "W_gx"].gen
    ELSE 0

\* the operations of kind op that graph g holds for the Python variable var,
\* and the one among a set ns of them that step j built
OpsOf(g, var, op) ==
    { n \in Ids : graph[n].gen = g /\ graph[n].var = var /\ graph[n].op = op }

StepIn(ns, j) == CHOOSE n \in ns : graph[n].arg = j

\* gate n is an activation of x_j Wx + h Wh + b, x_j being slice j of x
GateReads(n, j, x, h, Wx, Wh, b) ==
    LET pre == graph[graph[n].in[1]]
        mm == graph[pre.in[1]]
        sl == graph[mm.in[1]]
        xw == graph[pre.in[2]]
    IN /\ pre.op = "add"
       /\ mm.op = "matmul"
       /\ sl.op = "strided_slice" /\ sl.in = <<x>> /\ sl.arg = j
       /\ mm.in[2] = Wx
       /\ xw.op = "xw_plus_b"
       /\ xw.in = <<h, Wh, b>>

\* C12: in the LSTM loop state and hidden both start as zeros; at every step
\* the new state is g*i + f*(previous state) and the new hidden is
\* o*tanh(new state), g, i and o being computed from the current input x_j and
\* the previous step's hidden; states and hiddens receive exactly one entry per
\* step, so they always have equal length, SEQ_LENGTH-1 when they are stacked.
C12_LstmRecurrence ==
    LET g == LstmGen
        x == NodeOf(g, "seq_input", "placeholder")
        s0 == NodeOf(g, "state_0", "zeros")
        h0 == NodeOf(g, "hidden_0", "zeros")
        sts == OpsOf(g, "state", "add")
        hds == OpsOf(g, "hidden", "mul")
        gs == OpsOf(g, "g", "tanh")
        is == OpsOf(g, "i", "sigmoid")
        fs == OpsOf(g, "f", "sigmoid")
        os == OpsOf(g, "o", "sigmoid")
        V(name) == NodeOf(g, name, "variable")
        steps == { graph[n].arg : n \in sts }
    IN /\ (nb = "rnn" /\ pc = "lstm_loop") =>
              /\ Len(states_list) = idx
              /\ Len(hiddens_list) = idx
              /\ idx <= SEQ_LENGTH - 1
              /\ steps = 0..(idx - 1)
              /\ \A j \in 1..idx : /\ states_list[j] = StepIn(sts, j - 1)
                                   /\ hiddens_list[j] = StepIn(hds, j - 1)
              /\ (idx = 0 => env["state"] = s0 /\ env["hidden"] = h0)
       /\ (g # 0 /\ sts # {}) =>
              /\ Cardinality(sts) = Cardinality(steps)
              /\ Cardinality(hds) = Cardinality(steps)
              /\ \A j \in steps :
                     LET st == StepIn(sts, j)
                         hd == StepIn(hds, j)
                         prevS == IF j = 0 THEN s0 ELSE StepIn(sts, j - 1)
                         prevH == IF j = 0 THEN h0 ELSE StepIn(hds, j - 1)
                         G == StepIn(gs, j)
                         I == StepIn(is, j)
                         F == StepIn(fs, j)
                         O == StepIn(os, j)
                         gi == graph[graph[st].in[1]]
                         fprev == graph[graph[st].in[2]]
                         th == graph[graph[hd].in[2]]
                     IN /\ gi.op = "mul" /\ gi.in = <<G, I>>
                        /\ fprev.op = "mul" /\ fprev.in = <<F, prevS>>
                        /\ graph[hd].in[1] = O
                        /\ th.op = "tanh" /\ th.in = <<st>>
                        /\ GateReads(G, j, x, prevH, V("W_gx"), V("W_gh"), V("b_g"))
                        /\ GateReads(I, j, x, prevH, V("W_ix"), V("W_ih"), V("b_i"))
                        /\ GateReads(O, j, x, prevH, V("W_ox"), V("W_oh"), V("b_o"))
                        /\ prevH < G /\ prevH < I /\ prevH < O
              /\ \A n \in OpsOf(g, "states", "stack") :
                     /\ Len(graph[n].in) = SEQ_LENGTH - 1
                     /\ \A j \in 1..(SEQ_LENGTH - 1) : graph[n].in[j] = StepIn(sts, j - 1)
              /\ \A n \in OpsOf(g, "hiddens", "stack") :
                     /\ Len(graph[n].in) = SEQ_LENGTH - 1
                     /\ \A j \in 1..(SEQ_LENGTH - 1) : graph[n].in[j] = StepIn(hds, j - 1)

C12_Witness ==
    /\ nb = "rnn"
    /\ pc = "lstm_output"
    /\ Len(graph[env["states"]].in) = SEQ_LENGTH - 1
    /\ Len(graph[env["hiddens"]].in) = SEQ_LENGTH - 1
    /\ graph[graph[graph[env["states"]].in[SEQ_LENGTH - 1]].in[2]].in[2] =
           graph[env["states"]].in[SEQ_LENGTH - 2]

TrainPhases == {"rnn_train", "lstm_train"}

LossPhases == {"rnn_train_loss", "lstm_train_loss"}

\* where the two training loops stand: at the head of pass idx the parameters
\* have had idx-1 updates, between the two statements of pass idx they have
\* had idx; a printed line of step k reports the loss after k updates, and the
\* test line that follows a loop reports it after all TRAIN_STEPS updates
C13_LoopState ==
    nb = "rnn" =>
        /\ pc \in TrainPhases =>
               /\ idx \in 1..(TRAIN_STEPS + 1)
               /\ sess.updates = idx - 1
        /\ pc \in LossPhases =>
               /\ idx \in 1..TRAIN_STEPS
               /\ sess.updates = idx
               /\ fetched.what = "train_step"
               /\ feed.data = "train_seq"
        /\ printed.what = "step" =>
               /\ printed.step \in 1..TRAIN_STEPS
               /\ printed.updates = printed.step
               /\ printed.data = "train_seq"
        /\ printed.what = "test loss" => printed.updates = TRAIN_STEPS
        /\ sess.updates <= TRAIN_STEPS

\* one step of a training loop: the train_step run is the one update of the
\* pass and is followed by the loss run, which prints the pass number and
\* starts the next pass; the loop is left only after pass TRAIN_STEPS
C13_LoopStep ==
    /\ (pc \in TrainPhases /\ pc' \in LossPhases) =>
           /\ fetched'.what = "train_step"
           /\ sess'.updates = sess.updates + 1
           /\ idx' = idx /\ printed' = printed
    /\ pc \in LossPhases =>
           /\ pc' \in TrainPhases
           /\ fetched'.what = "loss"
           /\ sess' = sess
           /\ printed'.what = "step" /\ printed'.step = idx
           /\ idx' = idx + 1
    /\ (pc \in TrainPhases /\ pc' \notin LossPhases) =>
           /\ idx = TRAIN_STEPS + 1
           /\ sess.updates = TRAIN_STEPS
           /\ sess' = sess

\* C13: the RNN and the LSTM training loop are sequential and bounded: each
\* ends after exactly TRAIN_STEPS = 100 passes, the same number for both, each
\* pass runs exactly one train_step on the training set and then one loss
\* evaluation, and the loss printed at step k comes from the parameters after
\* exactly k updates.
C13_TrainingLoops == [](C13_LoopState) /\ [][C13_LoopStep]_vars

C13_Witness ==
    /\ nb = "rnn"
    /\ pc = "lstm_train"
    /\ sess.gen = LstmGen
    /\ idx = TRAIN_STEPS + 1
    /\ printed = [what |-> "step", step |-> TRAIN_STEPS, updates |-> TRAIN_STEPS,
                  data |-> "train_seq"]

SessionPhases == {"rnn_session", "lstm_session"}

\* what has been run so far: train_step only on train_seq, in an initialized
\* session of the current graph; test_seq only for a readout, after all the
\* updates of its model; no tensor, loss and predict included, is computed
\* from the train_step operation, so fetching one never runs an update
C14_RunState ==
    nb = "rnn" =>
        /\ pc \in (TrainPhases \cup LossPhases) =>
               /\ sess.initialized
               /\ sess.gen = gen
        /\ fetched.what = "train_step" =>
               /\ feed.data = "train_seq"
               /\ sess.initialized
        /\ feed.data = "test_seq" => fetched.what \in {"loss", "predict"}
        /\ printed.data = "test_seq" =>
               /\ printed.what = "test loss"
               /\ printed.updates = TRAIN_STEPS
        /\ sess.updates > 0 => sess.initialized
        /\ \A n \in Ids : \A k \in DOMAIN graph[n].in :
               graph[graph[n].in[k]].op # "minimize"

\* what one step may do to the model variables: the initializer gives them
\* their initial values, a train_step run fed with train_seq updates them once,
\* and nothing else, a loss or predict run on either array included, changes
\* them; the readout on test_seq ends the model's run
C14_RunStep ==
    /\ sess' # sess =>
           \/ /\ pc \in SessionPhases
              /\ sess' = [gen |-> gen, initialized |-> TRUE, updates |-> 0]
           \/ /\ pc \in TrainPhases
              /\ sess.initialized
              /\ fetched'.what = "train_step"
              /\ feed'.data = "train_seq"
              /\ sess' = [sess EXCEPT !.updates = @ + 1]
    /\ (pc \in (TrainPhases \cup LossPhases) /\ fetched'.what \in {"loss", "predict"}) =>
           sess' = sess
    /\ (feed'.data = "test_seq" /\ feed.data # "test_seq") =>
           /\ sess' = sess
           /\ sess.updates = TRAIN_STEPS
           /\ pc' \notin (TrainPhases \cup LossPhases)
    /\ pc \in SessionPhases => pc' \in TrainPhases

\* C14: in each model's run the order is variable initialization, then all the
\* parameter updates, then the test readout; test_seq is never fed to
\* train_step, and a run of loss or predict, on training or on test data,
\* leaves every model variable unchanged: only train_step modifies parameters.
C14_OnlyTrainStepModifiesParameters == [](C14_RunState) /\ [][C14_RunStep]_vars

C14_Witness ==
    /\ nb = "rnn"
    /\ pc = "lstm_reset"
    /\ feed.data = "test_seq"
    /\ fetched.what = "loss"
    /\ sess = [gen |-> VanillaGen, initialized |-> TRUE, updates |-> TRAIN_STEPS]
    /\ printed.what = "test loss"

\* the operations a fetch of the operations in front depends on
RECURSIVE Ancestors(_, _)
Ancestors(front, seen) ==
    IF front = {} THEN seen
    ELSE LET next == UNION { Range(graph[n].in) : n \in front } \ (seen \cup front)
         IN Ancestors(next, seen \cup front)

LstmBuilt == {"lstm_session", "lstm_train", "lstm_train_loss", "done"}

LstmRunning == {"lstm_train", "lstm_train_loss", "done"}

\* C15: the LSTM section starts from a clean state: after
\* tf.reset_default_graph, a new session and a new global initializer no LSTM
\* variable, W_yh and b_y included, carries a value trained in the RNN section,
\* and no RNN-section tensor is reachable from the LSTM's predict or loss; the
\* two sections share only the generated data.
C15_LstmStartsClean ==
    LET g == LstmGen
        old == { n \in Ids : graph[n].gen # g }
    IN (nb = "rnn" /\ g # 0) =>
        /\ g = gen
        /\ g # VanillaGen
        /\ \A n \in Ids \ old : Range(graph[n].in) \cap old = {}
        /\ \A v \in DOMAIN trainable :
               trainable[v].gen = g =>
                   /\ trainable[v].init = "default"
                   /\ \E n \in Ids \ old : /\ graph[n].op = "variable"
                                           /\ graph[n].var = trainable[v].layer
                                           /\ env[trainable[v].layer] = n
        /\ pc \in LstmBuilt =>
               /\ Cardinality({ v \in DOMAIN trainable : trainable[v].gen = g }) = 14
               /\ { env["W_yh"], env["b_y"] } \cap old = {}
               /\ env["W_yh"] # NodeOf(VanillaGen, "W_yh", "variable")
               /\ env["b_y"] # NodeOf(VanillaGen, "b_y", "variable")
               /\ Ancestors({env["predict"], env["loss"], env["train_step"]}, {}) \cap old = {}
               /\ env["seq_input"] \in Ancestors({env["predict"]}, {})
               /\ env["W_yh"] \in Ancestors({env["loss"]}, {})
        /\ pc \in LstmRunning =>
               /\ sess.gen = g
               /\ sess.initialized
               /\ sess.updates = (IF pc = "lstm_train" THEN idx - 1 ELSE
                                  IF pc = "done" THEN TRAIN_STEPS ELSE idx)
               /\ feed.data \in {"train_seq", "test_seq"}

C15_Witness ==
    /\ nb = "rnn"
    /\ pc = "lstm_train"
    /\ idx = 1
    /\ sess = [gen |-> LstmGen, initialized |-> TRUE, updates |-> 0]
    /\ LstmGen = VanillaGen + 1
    /\ graph[env["W_yh"]].gen = LstmGen
    /\ printed.updates = TRAIN_STEPS

====
